---- MODULE Spec2Model ----
(***************************************************************************)
(* SerenAI backend (backend/main.py, backend/db/models.py,                 *)
(* backend/db/session.py) as a state machine.                              *)
(*                                                                         *)
(* The committed content of the relational tables, the voice directory,    *)
(* the bearer tokens handed to clients and the wall clock are the state.   *)
(* A request is served in one or more steps.  The handlers declared with   *)
(* "def" run in the framework's thread pool, so their database statements  *)
(* interleave with those of other requests: a handler that selects and     *)
(* later commits is two steps (Begin, Finish).  upload_mom_voice is an     *)
(* "async def" coroutine: it yields only at its awaits (one per file).     *)
(* Every request owns a database session (session.py:14-16); what a        *)
(* session added and did not commit is dropped when the request ends.      *)
(***************************************************************************)
EXTENDS Integers, Sequences, FiniteSets, TLC

VARIABLES
    users,      \* table users: sequence of rows, id = position
    profiles,   \* table user_profiles
    moms,       \* table mom_profiles
    voices,     \* table mom_voices (committed rows)
    disk,       \* stored names of the files present in VOICE_DIR
    events,     \* event log of the chat orchestrator
    tokens,     \* payloads of the tokens issued so far (signed with JWT_SECRET)
    clock,      \* datetime.utcnow(), in minutes
    ticks,      \* number of clock advances so far
    reqs,       \* requests in flight, one per slot
    last        \* the step just taken: endpoint, inputs and the response, if any

vars == <<users, profiles, moms, voices, disk, events, tokens, clock, ticks, reqs, last>>

----------------------------------------------------------------------------
(* Bounds of the model *)

MaxTicks == 2
MaxProfiles == 2
MaxMoms == 2
MaxVoices == 2
MaxBatch == 2
MaxEvents == 5

(* Program constants *)

BcryptLimit == 72
ExpiresMinutes == 1440
MaxBytes == 10485760
RecentLimit == 5
RepeatThreshold == 3
GrowthThreshold == 2

----------------------------------------------------------------------------
(* Inputs *)

Slots == {"s1", "s2"}

Emails == {"a@b.com", "c@d.com"}

NoneVal == "None"

\* A password is the sequence of its UTF-8 bytes (SignupIn.password and
\* LoginIn.password are required strings, so never None).
LongPw(lastByte) == [i \in 1..(BcryptLimit + 1) |-> IF i <= BcryptLimit THEN 1 ELSE lastByte]

Passwords == {<<1>>, <<2>>, LongPw(1), LongPw(2)}

Idle == [op |-> "idle"]

AudioWav == <<"a", "u", "d", "i", "o", "/", "w", "a", "v">>
TextPlain == <<"t", "e", "x", "t", "/", "p", "l", "a", "i", "n">>
AudioPrefix == <<"a", "u", "d", "i", "o", "/">>

\* An uploaded file: its declared content type and the length of its contents.
UploadFiles ==
    { [content_type |-> AudioWav, size |-> MaxBytes],
      [content_type |-> AudioWav, size |-> MaxBytes + 1],
      [content_type |-> TextPlain, size |-> 1] }

RECURSIVE SeqsUpTo(_, _)
SeqsUpTo(S, n) ==
    IF n = 0 THEN {<<>>}
    ELSE LET shorter == SeqsUpTo(S, n - 1)
         IN  shorter \cup {Append(q, x) : q \in {t \in shorter : Len(t) = n - 1}, x \in S}

Batches == SeqsUpTo(UploadFiles, MaxBatch)

FullNames == {NoneVal, "Ann"}
Personalities == {"calm", "strict"}

----------------------------------------------------------------------------
(* Password hashing, main.py:35-51 *)

safe_password_bytes(pw) ==
    IF Len(pw) > BcryptLimit THEN SubSeq(pw, 1, BcryptLimit) ELSE pw

\* The bcrypt digest is determined, up to its salt, by the bytes it is given;
\* the salt plays no part in verification.
hash_password(password) == <<"bcrypt", safe_password_bytes(password)>>

verify_password(plain, hashed) == hashed = <<"bcrypt", safe_password_bytes(plain)>>

----------------------------------------------------------------------------
(* Tokens, main.py:54-67 *)

create_access_token(data, now) ==
    [user_id |-> data.user_id, email |-> data.email, exp |-> now + ExpiresMinutes]

\* What a client can present: no Authorization header, a string that is no
\* JWT, or a JWT whose payload is an issued one and whose signature is either
\* the server's or not.
NoCred == [kind |-> "none"]
Garbage == [kind |-> "garbage"]
Jwt(payload, sig) == [kind |-> "jwt", payload |-> payload, sig |-> sig]

Creds == {NoCred, Garbage} \cup {Jwt(t, s) : t \in tokens, s \in {"good", "bad"}}

decode_access_token_noexp(cred, now) ==
    IF cred.kind = "garbage" \/ cred.sig # "good"
    THEN [ok |-> FALSE, detail |-> "Invalid token"]
    ELSE [ok |-> TRUE, payload |-> cred.payload]

\* jwt.decode checks the signature first, then the exp claim (expired when
\* exp <= now).
decode_access_token(cred, now) ==
    IF cred.kind = "garbage" \/ cred.sig # "good"
    THEN [ok |-> FALSE, detail |-> "Invalid token"]
    ELSE IF cred.payload.exp <= now
    THEN [ok |-> FALSE, detail |-> "Token expired"]
    ELSE [ok |-> TRUE, payload |-> cred.payload]

\* main.py:104-116
get_current_user(cred) ==
    IF cred.kind = "none"
    THEN [ok |-> FALSE, detail |-> "Missing or invalid authorization header"]
    ELSE LET d == decode_access_token(cred, clock)
         IN  IF ~d.ok THEN d
             ELSE IF d.payload.user_id = 0
             THEN [ok |-> FALSE, detail |-> "Invalid token payload"]
             ELSE IF d.payload.user_id \notin 1..Len(users)
             THEN [ok |-> FALSE, detail |-> "User not found"]
             ELSE [ok |-> TRUE, user_id |-> d.payload.user_id]

----------------------------------------------------------------------------
(* Queries *)

RowsOf(table, uid) == {i \in 1..Len(table) : table[i].user_id = uid}

\* select(...).where(...).first() has no ORDER BY: the database may return any
\* matching row; 0 stands for None.
First(matching) == IF matching = {} THEN {0} ELSE matching

UserByEmail(email) == {i \in 1..Len(users) : users[i].email = email}

ActiveVoices(mid) == {i \in 1..Len(voices) : voices[i].mom_profile_id = mid /\ voices[i].is_active}

\* models.py:16, Column(Text, unique=True): an INSERT of a second row with the
\* same email raises IntegrityError at commit.
UniqueViolation(email) == UserByEmail(email) # {}

Free(s) == reqs[s] = Idle

Start(s, r) == reqs' = [reqs EXCEPT ![s] = r]

Finish(s) == reqs' = [reqs EXCEPT ![s] = Idle]

Unauthorized(op, cred) ==
    /\ last' = [op |-> op, step |-> "auth", status |-> 401,
                detail |-> get_current_user(cred).detail, cred |-> cred]
    /\ UNCHANGED <<users, profiles, moms, voices, disk, events, tokens, clock, ticks, reqs>>

----------------------------------------------------------------------------
(* The clock *)

TickSteps == {1, ExpiresMinutes - 1}

Tick(d) ==
    /\ ticks < MaxTicks
    /\ clock' = clock + d
    /\ ticks' = ticks + 1
    /\ last' = [op |-> "tick", step |-> "tick", status |-> 0, detail |-> ""]
    /\ UNCHANGED <<users, profiles, moms, voices, disk, events, tokens, reqs>>

----------------------------------------------------------------------------
(* POST /signup, main.py:142-156 *)

SignupLookupSkipped(email) == {}

\* line 144
SignupLookup(email) == UserByEmail(email)

\* line 144-146: the lookup, and the 400 when it finds a row
SignupBegin(s, email, password) ==
    /\ Free(s)
    /\ IF SignupLookup(email) # {}
       THEN /\ last' = [op |-> "signup", step |-> "select", status |-> 400,
                        detail |-> "Email already registered", email |-> email,
                        token |-> NoneVal]
            /\ UNCHANGED reqs
       ELSE /\ Start(s, [op |-> "signup", email |-> email, password |-> password])
            /\ last' = [op |-> "signup", step |-> "select", status |-> 0, detail |-> "",
                        email |-> email, token |-> NoneVal]
    /\ UNCHANGED <<users, profiles, moms, voices, disk, events, tokens, clock, ticks>>

\* line 147-156: the insert, its commit, and the token
SignupFinish(s) ==
    /\ reqs[s].op = "signup"
    /\ Finish(s)
    /\ LET r == reqs[s]
           id == Len(users) + 1
           token == create_access_token([user_id |-> id, email |-> r.email], clock)
       IN  IF UniqueViolation(r.email)
           THEN /\ last' = [op |-> "signup", step |-> "commit", status |-> 500,
                            detail |-> "IntegrityError", email |-> r.email,
                            token |-> NoneVal]
                /\ UNCHANGED <<users, tokens>>
           ELSE /\ users' = Append(users, [id |-> id, email |-> r.email,
                                           hashed_password |-> hash_password(r.password),
                                           last_login_at |-> -1])
                /\ tokens' = tokens \cup {token}
                /\ last' = [op |-> "signup", step |-> "commit", status |-> 200,
                            detail |-> "Signup successful", email |-> r.email,
                            token |-> token, user_id |-> id]
    /\ UNCHANGED <<profiles, moms, voices, disk, events, clock, ticks>>

----------------------------------------------------------------------------
(* POST /login, main.py:158-168 *)

LoginRejectsUnknownOnly(matching, password) == matching = {}

\* line 161
LoginRejects(matching, password) ==
    \/ matching = {}
    \/ \E i \in matching : ~verify_password(password, users[i].hashed_password)

Login(email, password) ==
    /\ LET matching == UserByEmail(email)
       IN  IF LoginRejects(matching, password)
           THEN /\ last' = [op |-> "login", step |-> "login", status |-> 401,
                            detail |-> "Invalid credentials", email |-> email,
                            password |-> password, token |-> NoneVal]
                /\ UNCHANGED <<users, tokens>>
           ELSE \E i \in matching :
                LET token == create_access_token([user_id |-> i, email |-> users[i].email], clock)
                IN  /\ users' = [users EXCEPT ![i].last_login_at = clock]
                    /\ tokens' = tokens \cup {token}
                    /\ last' = [op |-> "login", step |-> "login", status |-> 200,
                                detail |-> "Login successful", email |-> email,
                                password |-> password, token |-> token, user_id |-> i]
    /\ UNCHANGED <<profiles, moms, voices, disk, events, clock, ticks, reqs>>

----------------------------------------------------------------------------
(* POST /api/profile, main.py:171-187 *)

\* get_current_user, then line 173
SaveProfileBegin(s, cred, full_name) ==
    /\ Free(s)
    /\ LET a == get_current_user(cred)
       IN  IF ~a.ok THEN Unauthorized("save_profile", cred)
           ELSE /\ \E existing \in First(RowsOf(profiles, a.user_id)) :
                      Start(s, [op |-> "save_profile", user_id |-> a.user_id,
                                full_name |-> full_name, existing |-> existing])
                /\ last' = [op |-> "save_profile", step |-> "select", status |-> 0,
                            detail |-> "", cred |-> cred]
                /\ UNCHANGED <<users, profiles, moms, voices, disk, events, tokens,
                               clock, ticks>>

\* line 175-182 (update in place) or 183-187 (insert).  A None full_name keeps
\* the stored one (payload.full_name or existing.full_name); dob and
\* preferences are written the same way and are left out.
SaveProfileFinish(s) ==
    /\ reqs[s].op = "save_profile"
    /\ Finish(s)
    /\ LET r == reqs[s]
       IN  IF r.existing # 0
           THEN /\ profiles' = [profiles EXCEPT ![r.existing].full_name =
                                   IF r.full_name # NoneVal THEN r.full_name ELSE @]
                /\ last' = [op |-> "save_profile", step |-> "commit", status |-> 200,
                            detail |-> "updated", user_id |-> r.user_id,
                            existing |-> r.existing, profile_id |-> r.existing]
           ELSE /\ Len(profiles) < MaxProfiles
                /\ profiles' = Append(profiles, [id |-> Len(profiles) + 1,
                                                 user_id |-> r.user_id,
                                                 full_name |-> r.full_name])
                /\ last' = [op |-> "save_profile", step |-> "commit", status |-> 200,
                            detail |-> "created", user_id |-> r.user_id,
                            existing |-> 0, profile_id |-> Len(profiles) + 1]
    /\ UNCHANGED <<users, moms, voices, disk, events, tokens, clock, ticks>>

\* GET /api/profile, main.py:189-206
GetProfile(cred) ==
    LET a == get_current_user(cred)
    IN  IF ~a.ok THEN Unauthorized("get_profile", cred)
        ELSE /\ \E p \in First(RowsOf(profiles, a.user_id)) :
                   last' = [op |-> "get_profile", step |-> "read", status |-> 200,
                            detail |-> "", cred |-> cred, user_id |-> a.user_id,
                            full_name |-> IF p = 0 THEN NoneVal ELSE profiles[p].full_name]
             /\ UNCHANGED <<users, profiles, moms, voices, disk, events, tokens, clock,
                            ticks, reqs>>

----------------------------------------------------------------------------
(* POST /api/mom/personality, main.py:209-223 *)

\* get_current_user, then line 211
SaveMomBegin(s, cred, personality) ==
    /\ Free(s)
    /\ LET a == get_current_user(cred)
       IN  IF ~a.ok THEN Unauthorized("save_mom_personality", cred)
           ELSE /\ \E existing \in First(RowsOf(moms, a.user_id)) :
                      Start(s, [op |-> "save_mom_personality", user_id |-> a.user_id,
                                personality |-> personality, existing |-> existing])
                /\ last' = [op |-> "save_mom_personality", step |-> "select", status |-> 0,
                            detail |-> "", cred |-> cred]
                /\ UNCHANGED <<users, profiles, moms, voices, disk, events, tokens,
                               clock, ticks>>

\* line 213-218 (update in place) or 219-223 (insert)
SaveMomFinish(s) ==
    /\ reqs[s].op = "save_mom_personality"
    /\ Finish(s)
    /\ LET r == reqs[s]
       IN  IF r.existing # 0
           THEN /\ moms' = [moms EXCEPT ![r.existing].personality = r.personality]
                /\ last' = [op |-> "save_mom_personality", step |-> "commit",
                            status |-> 200, detail |-> "updated", user_id |-> r.user_id,
                            existing |-> r.existing, mom_profile_id |-> r.existing]
           ELSE /\ Len(moms) < MaxMoms
                /\ moms' = Append(moms, [id |-> Len(moms) + 1, user_id |-> r.user_id,
                                         personality |-> r.personality,
                                         voice_count |-> 0, consent_given |-> FALSE])
                /\ last' = [op |-> "save_mom_personality", step |-> "commit",
                            status |-> 200, detail |-> "created", user_id |-> r.user_id,
                            existing |-> 0, mom_profile_id |-> Len(moms) + 1]
    /\ UNCHANGED <<users, profiles, voices, disk, events, tokens, clock, ticks>>

\* GET /api/mom/profile, main.py:225-252.  Line 250 reports the stored
\* voice_count unless it is 0, and then the number of active rows.
GetMomProfile(cred) ==
    LET a == get_current_user(cred)
    IN  IF ~a.ok THEN Unauthorized("get_mom_profile", cred)
        ELSE /\ \E m \in First(RowsOf(moms, a.user_id)) :
                   last' = [op |-> "get_mom_profile", step |-> "read", status |-> 200,
                            detail |-> "", cred |-> cred, user_id |-> a.user_id,
                            voice_count |->
                                IF m = 0 THEN 0
                                ELSE IF moms[m].voice_count # 0 THEN moms[m].voice_count
                                ELSE Cardinality(ActiveVoices(m))]
             /\ UNCHANGED <<users, profiles, moms, voices, disk, events, tokens, clock,
                            ticks, reqs>>

----------------------------------------------------------------------------
(* POST /api/mom/upload_voice, main.py:255-327 *)

StartsWith(str, prefix) ==
    Len(str) >= Len(prefix) /\ SubSeq(str, 1, Len(prefix)) = prefix

\* line 277
AudioType(f) == f.content_type # <<>> /\ StartsWith(f.content_type, AudioPrefix)

UploadPrecheckConsentOnly(consent, files) ==
    IF ~consent THEN "Consent is required to upload voice samples" ELSE ""

\* line 262-265
UploadPrecheck(consent, files) ==
    IF ~consent THEN "Consent is required to upload voice samples"
    ELSE IF Len(files) = 0 THEN "No audio files provided"
    ELSE ""

\* get_current_user, line 262-265, then line 267-273: the persona is looked up
\* and, when the user has none, inserted and committed at once.  The coroutine
\* does not yield in between, and a thread that commits between its select and
\* its commit leaves the tables as if it had committed just before or after.
UploadBegin(s, cred, consent, files) ==
    /\ Free(s)
    /\ LET a == get_current_user(cred)
           rejected == UploadPrecheck(consent, files)
           mine == RowsOf(moms, a.user_id)
       IN  IF ~a.ok THEN Unauthorized("upload_voice", cred)
           ELSE IF rejected # ""
           THEN /\ last' = [op |-> "upload_voice", step |-> "begin", status |-> 400,
                            detail |-> rejected, cred |-> cred, consent |-> consent,
                            n_files |-> Len(files)]
                /\ UNCHANGED <<moms, reqs>>
           ELSE /\ \E m \in First(mine) :
                      /\ IF m = 0
                         THEN /\ Len(moms) < MaxMoms
                              /\ moms' = Append(moms, [id |-> Len(moms) + 1,
                                                       user_id |-> a.user_id,
                                                       personality |-> "{}",
                                                       voice_count |-> 0,
                                                       consent_given |-> TRUE])
                         ELSE UNCHANGED moms
                      /\ Start(s, [op |-> "upload_voice", user_id |-> a.user_id,
                                   mom_id |-> IF m = 0 THEN Len(moms) + 1 ELSE m,
                                   created |-> (m = 0), files |-> files,
                                   pending |-> <<>>, saved |-> <<>>])
                /\ last' = [op |-> "upload_voice", step |-> "begin", status |-> 0,
                            detail |-> "", cred |-> cred, consent |-> consent,
                            n_files |-> Len(files)]
    /\ UNCHANGED <<users, profiles, voices, disk, events, tokens, clock, ticks>>

\* One round of the loop, line 276-313: the type check, the read, the size
\* check, the write to VOICE_DIR under a fresh uuid4 name, and the row added to
\* the session.  An HTTPException ends the request: the session closes and the
\* rows it holds are dropped; the files already written stay.
UploadFile(s) ==
    /\ reqs[s].op = "upload_voice"
    /\ reqs[s].files # <<>>
    /\ LET r == reqs[s]
           f == Head(r.files)
           safe_name == Cardinality(disk) + 1
           mv == [mom_profile_id |-> r.mom_id, user_id |-> r.user_id,
                  stored_name |-> safe_name, mime_type |-> f.content_type,
                  size_bytes |-> f.size, status |-> "validated", is_active |-> TRUE]
           Reject(detail) ==
               /\ Finish(s)
               /\ last' = [op |-> "upload_voice", step |-> "file", status |-> 400,
                           detail |-> detail, user_id |-> r.user_id,
                           created |-> r.created, saved |-> r.saved]
               /\ UNCHANGED disk
       IN  IF ~AudioType(f) THEN Reject("Invalid file type")
           ELSE IF f.size > MaxBytes THEN Reject("File too large")
           ELSE /\ Cardinality(disk) < MaxVoices
                /\ disk' = disk \cup {safe_name}
                /\ reqs' = [reqs EXCEPT ![s].files = Tail(r.files),
                                        ![s].pending = Append(r.pending, mv),
                                        ![s].saved = Append(r.saved, safe_name)]
                /\ last' = [op |-> "upload_voice", step |-> "file", status |-> 0,
                            detail |-> "", user_id |-> r.user_id,
                            created |-> r.created, saved |-> Append(r.saved, safe_name)]
    /\ UNCHANGED <<users, profiles, moms, voices, events, tokens, clock, ticks>>

\* line 315-319.  Line 316 commits the rows of the batch.  Line 319 calls
\* .count() on what session.exec(select(...)) returns, a ScalarResult, which
\* has no such attribute: AttributeError, the request ends with a 500 and
\* lines 320-327 (voice_count, consent_given, the 200) are never reached.
UploadCommit(s) ==
    /\ reqs[s].op = "upload_voice"
    /\ reqs[s].files = <<>>
    /\ LET r == reqs[s]
       IN  /\ voices' = voices \o r.pending
           /\ last' = [op |-> "upload_voice", step |-> "commit", status |-> 500,
                       detail |-> "AttributeError", user_id |-> r.user_id,
                       created |-> r.created, saved |-> r.saved,
                       mom_profile_id |-> r.mom_id]
    /\ Finish(s)
    /\ UNCHANGED <<users, profiles, moms, disk, events, tokens, clock, ticks>>

----------------------------------------------------------------------------
(* POST /api/chat: the chat orchestrator and the intent classifier.  Their   *)
(* code is in no file of src/; they are written from sections 4.1 and 4.2 of *)
(* the specification.                                                        *)

\* A message is taken as the set of intents of which it contains a keyword.
KeywordIntents == {"mistake", "sadness", "fatigue", "improvement"}

\* One message for each single keyword, one with none, and one with the
\* keywords of two intents.
Messages == {{}} \cup {{k} : k \in KeywordIntents} \cup {{"mistake", "sadness"}}

\* section 4.1: fixed priority order, first match, else neutral
classify_intent(message) ==
    IF "mistake" \in message THEN "mistake"
    ELSE IF "sadness" \in message THEN "sadness"
    ELSE IF "fatigue" \in message THEN "fatigue"
    ELSE IF "improvement" \in message THEN "improvement"
    ELSE "neutral"

Min(a, b) == IF a < b THEN a ELSE b

\* section 4.2 step 3: the user's most recent RecentLimit events with
\* event_key "generic_mistake", counted
recent_mistakes(uid) ==
    Min(RecentLimit,
        Cardinality({i \in 1..Len(events) :
                        events[i].user_id = uid /\ events[i].event_key = "generic_mistake"}))

\* section 4.2 step 5: the event each loggable intent maps to (only the key
\* generic_mistake is named by the specification)
EventOf(intent) ==
    IF intent = "mistake"
    THEN [event_type |-> "mistake", event_key |-> "generic_mistake", severity |-> "medium"]
    ELSE IF intent = "sadness"
    THEN [event_type |-> "emotion", event_key |-> "generic_sadness", severity |-> "medium"]
    ELSE [event_type |-> "emotion", event_key |-> "generic_fatigue", severity |-> "low"]

Loggable == {"mistake", "sadness", "fatigue"}

PositiveChange ==
    [event_type |-> "positive_change", event_key |-> "meal_improvement", severity |-> "low"]

chat_policy_strict(intent, count) ==
    IF intent = "improvement" /\ count >= GrowthThreshold
    THEN [tone |-> "proud", log |-> <<PositiveChange>>]
    ELSE IF intent = "mistake"
    THEN [tone |-> IF count > RepeatThreshold THEN "caring-anger" ELSE "gentle",
          log |-> <<EventOf(intent)>>]
    ELSE [tone |-> intent,
          log |-> IF intent \in Loggable THEN <<EventOf(intent)>> ELSE <<>>]

chat_policy_no_growth(intent, count) ==
    IF intent = "mistake"
    THEN [tone |-> IF count >= RepeatThreshold THEN "caring-anger" ELSE "gentle",
          log |-> <<EventOf(intent)>>]
    ELSE [tone |-> intent,
          log |-> IF intent \in Loggable THEN <<EventOf(intent)>> ELSE <<>>]

\* section 4.2 steps 2, 4 and 5: the tone of the reply and the events to log.
\* The default table entry of an intent is named after the intent.
chat_policy(intent, count) ==
    IF intent = "improvement" /\ count >= GrowthThreshold
    THEN [tone |-> "proud", log |-> <<PositiveChange>>]
    ELSE IF intent = "mistake"
    THEN [tone |-> IF count >= RepeatThreshold THEN "caring-anger" ELSE "gentle",
          log |-> <<EventOf(intent)>>]
    ELSE [tone |-> intent,
          log |-> IF intent \in Loggable THEN <<EventOf(intent)>> ELSE <<>>]

Chat(cred, message) ==
    LET a == get_current_user(cred)
        intent == classify_intent(message)
        count == recent_mistakes(a.user_id)
        out == chat_policy(intent, count)
        rows == [i \in 1..Len(out.log) |->
                    [user_id |-> a.user_id, event_type |-> out.log[i].event_type,
                     event_key |-> out.log[i].event_key,
                     severity |-> out.log[i].severity, source |-> "ai",
                     context |-> message]]
    IN  IF ~a.ok THEN Unauthorized("chat", cred)
        ELSE /\ Len(events) + Len(rows) <= MaxEvents
             /\ events' = events \o rows
             /\ last' = [op |-> "chat", step |-> "chat", status |-> 200, detail |-> "",
                         user_id |-> a.user_id, intent |-> intent, prior |-> count,
                         tone |-> out.tone]
             /\ UNCHANGED <<users, profiles, moms, voices, disk, tokens, clock, ticks, reqs>>

----------------------------------------------------------------------------
(* Initial state and next-state relation *)

Init ==
    /\ users = <<>>
    /\ profiles = <<>>
    /\ moms = <<>>
    /\ voices = <<>>
    /\ disk = {}
    /\ events = <<>>
    /\ tokens = {}
    /\ clock = 0
    /\ ticks = 0
    /\ reqs = [s \in Slots |-> Idle]
    /\ last = [op |-> "init", step |-> "init", status |-> 0, detail |-> ""]

\* The inputs each specification draws from.
GoodCreds == {Jwt(t, "good") : t \in tokens}

OneEmail == {"a@b.com"}

ShortPw == <<1>>

OkFile == [content_type |-> AudioWav, size |-> MaxBytes]

\* Signup and login: two concurrent signups, two addresses, passwords on both
\* sides of the bcrypt limit.
NextAuth ==
    \/ \E s \in Slots, e \in Emails, p \in Passwords : SignupBegin(s, e, p)
    \/ \E s \in Slots : SignupFinish(s)
    \/ \E e \in Emails, p \in Passwords : Login(e, p)

SpecAuth == Init /\ [][NextAuth]_vars

\* One user, one request at a time, every credential, a clock that advances:
\* the bearer-auth endpoints.
NextBearer ==
    \/ \E d \in TickSteps : Tick(d)
    \/ \E e \in OneEmail : SignupBegin("s1", e, ShortPw)
    \/ SignupFinish("s1")
    \/ \E e \in OneEmail : Login(e, ShortPw)
    \/ \E c \in Creds : SaveProfileBegin("s1", c, "Ann")
    \/ SaveProfileFinish("s1")
    \/ \E c \in Creds : GetProfile(c)
    \/ \E c \in Creds : SaveMomBegin("s1", c, "calm")
    \/ SaveMomFinish("s1")
    \/ \E c \in Creds : GetMomProfile(c)
    \/ \E c \in Creds : UploadBegin("s1", c, TRUE, <<OkFile>>)
    \/ UploadFile("s1")
    \/ UploadCommit("s1")

SpecBearer == Init /\ [][NextBearer]_vars

\* One user, one request at a time: uploads with and without consent, of every
\* batch, the empty one included, with or without a persona already stored.
NextConsent ==
    \/ \E e \in OneEmail : SignupBegin("s1", e, ShortPw)
    \/ SignupFinish("s1")
    \/ \E c \in GoodCreds, p \in Personalities : SaveMomBegin("s1", c, p)
    \/ SaveMomFinish("s1")
    \/ \E c \in GoodCreds, k \in BOOLEAN, b \in Batches : UploadBegin("s1", c, k, b)
    \/ UploadFile("s1")
    \/ UploadCommit("s1")

SpecConsent == Init /\ [][NextConsent]_vars

\* One user, two requests in flight: the upserts of the profile and of the
\* persona, and the persona an upload makes sure of.
NextUpsert ==
    \/ \E e \in OneEmail : SignupBegin("s1", e, ShortPw)
    \/ SignupFinish("s1")
    \/ \E s \in Slots, c \in GoodCreds, n \in FullNames : SaveProfileBegin(s, c, n)
    \/ \E s \in Slots : SaveProfileFinish(s)
    \/ \E s \in Slots, c \in GoodCreds, p \in Personalities : SaveMomBegin(s, c, p)
    \/ \E s \in Slots : SaveMomFinish(s)
    \/ \E s \in Slots, c \in GoodCreds : UploadBegin(s, c, TRUE, <<OkFile>>)
    \/ \E s \in Slots : UploadFile(s)
    \/ \E s \in Slots : UploadCommit(s)

SpecUpsert == Init /\ [][NextUpsert]_vars

\* One user, two requests in flight: voice uploads of every batch, next to the
\* persona endpoints.
NextUpload ==
    \/ \E e \in OneEmail : SignupBegin("s1", e, ShortPw)
    \/ SignupFinish("s1")
    \/ \E s \in Slots, c \in GoodCreds : SaveMomBegin(s, c, "calm")
    \/ \E s \in Slots : SaveMomFinish(s)
    \/ \E c \in GoodCreds : GetMomProfile(c)
    \/ \E s \in Slots, c \in GoodCreds, k \in BOOLEAN, b \in Batches : UploadBegin(s, c, k, b)
    \/ \E s \in Slots : UploadFile(s)
    \/ \E s \in Slots : UploadCommit(s)

SpecUpload == Init /\ [][NextUpload]_vars

\* One user and their chat messages.
NextChat ==
    \/ \E e \in OneEmail : SignupBegin("s1", e, ShortPw)
    \/ SignupFinish("s1")
    \/ \E c \in Creds, m \in Messages : Chat(c, m)

SpecChat == Init /\ [][NextChat]_vars

----------------------------------------------------------------------------
(* Properties *)

Stored == <<users, profiles, moms, voices, disk, events, tokens>>

\* C1: a signup whose email is that of an existing user row is answered 400,
\* issues no token and leaves the user rows as they were; and after every step
\* no two user rows share an email.
C1_Step ==
    /\ (last'.op = "signup" /\ last'.step = "select" /\ UserByEmail(last'.email) # {})
          => /\ last'.status = 400
             /\ last'.token = NoneVal
             /\ tokens' = tokens
             /\ users' = users
             /\ reqs' = reqs
    /\ \A i, j \in 1..Len(users') : users'[i].email = users'[j].email => i = j

C1_DuplicateSignupRejected == [][C1_Step]_vars

C1_Witness ==
    /\ last.op = "signup"
    /\ last.status = 400
    /\ UserByEmail(last.email) # {}

\* C2: a login with the email of an existing user and a password that does not
\* verify against the stored hash is answered 401, issues no token and leaves
\* the user rows (last_login_at included) as they were; a token is issued and
\* last_login_at is set only when the email matches a row and the password
\* verifies against its hash.
C2_Step ==
    last'.op = "login" =>
        LET matching == UserByEmail(last'.email)
            verifies == \E i \in matching :
                            verify_password(last'.password, users[i].hashed_password)
        IN  /\ (matching # {} /\ ~verifies)
                  => /\ last'.status = 401
                     /\ last'.token = NoneVal
                     /\ tokens' = tokens
                     /\ users' = users
            /\ (last'.status = 200 \/ last'.token # NoneVal \/ tokens' # tokens
                    \/ users' # users)
                  => /\ verifies
                     /\ last'.status = 200
                     /\ last'.token \in tokens'
                     /\ \A i \in matching :
                           users' = [users EXCEPT ![i].last_login_at = clock]

C2_BadPasswordRejected == [][C2_Step]_vars

C2_Witness ==
    /\ last.op = "login"
    /\ last.status = 401
    /\ \E i \in UserByEmail(last.email) :
          users[i].hashed_password # hash_password(last.password)

\* C5: an upload_voice request of an authenticated user with consent = false,
\* or with an empty file list, is answered 400 in its first step: no persona
\* row is created or modified, no voice row is created and no file is written.
C5_Step ==
    (last'.op = "upload_voice" /\ last'.step = "begin"
        /\ (~last'.consent \/ last'.n_files = 0))
      => /\ last'.status = 400
         /\ last'.detail = (IF ~last'.consent
                            THEN "Consent is required to upload voice samples"
                            ELSE "No audio files provided")
         /\ moms' = moms
         /\ voices' = voices
         /\ disk' = disk
         /\ reqs' = reqs

C5_UploadRejectedBeforeStorage == [][C5_Step]_vars

C5_Witness ==
    /\ last.op = "upload_voice"
    /\ last.step = "begin"
    /\ last.status = 400
    /\ last.consent
    /\ last.n_files = 0

BearerOps ==
    {"save_profile", "get_profile", "save_mom_personality", "get_mom_profile", "upload_voice"}

\* The first step of a bearer-auth request, the one that reads the credential.
AuthSteps == {"auth", "select", "read", "begin"}

\* C6: on every bearer-auth endpoint a request without a token, with a
\* malformed or wrongly signed token, or with a token past its expiry is
\* answered 401 and changes no stored state; the expired token is reported as
\* "Token expired", the invalid one as "Invalid token"; a token expires
\* ExpiresMinutes after it was issued and is accepted at every time before.
C6_Step ==
    /\ (last'.op \in {"signup", "login"} /\ last'.status = 200)
          => last'.token.exp = clock + ExpiresMinutes
    /\ (last'.op \in BearerOps /\ last'.step \in AuthSteps) =>
          LET c == last'.cred
              signed == c.kind = "jwt" /\ c.sig = "good"
          IN  /\ last'.status = 401 => (Stored' = Stored /\ reqs' = reqs)
              /\ c.kind = "none" => last'.status = 401
              /\ (c.kind = "garbage" \/ (c.kind = "jwt" /\ c.sig # "good"))
                    => (last'.status = 401 /\ last'.detail = "Invalid token")
              /\ (signed /\ clock > c.payload.exp)
                    => (last'.status = 401 /\ last'.detail = "Token expired")
              /\ (signed /\ clock < c.payload.exp) => last'.status # 401

C6_BearerAuth == [][C6_Step]_vars

C6_Witness ==
    /\ last.op \in BearerOps
    /\ last.status = 401
    /\ last.detail = "Token expired"
    /\ last.cred.payload.exp = ExpiresMinutes
    /\ Len(users) = 1

\* The user's events with event_key "generic_mistake" in the log.
MistakesOf(log, uid) ==
    Cardinality({i \in 1..Len(log) :
                    log[i].user_id = uid /\ log[i].event_key = "generic_mistake"})

\* C3: an upload_voice request with a file whose declared type does not start
\* with "audio/", at any position of the list, is answered 400 with no file of
\* the request written to the voice directory and no voice row of the request
\* created.
C3_NonAudioWritesNothing ==
    (last.op = "upload_voice" /\ last.step = "file" /\ last.detail = "Invalid file type")
      => /\ last.status = 400
         /\ last.saved = <<>>
         /\ \A i \in 1..Len(voices), k \in 1..Len(last.saved) :
               voices[i].stored_name # last.saved[k]

\* C4: once the upload_voice requests of a user have completed, the
\* voice_count stored on the persona equals the number of its voice rows with
\* is_active = true.
C4_VoiceCountMatchesRows ==
    (\A s \in Slots : reqs[s].op # "upload_voice")
      => \A m \in 1..Len(moms) : moms[m].voice_count = Cardinality(ActiveVoices(m))

\* C7: each user owns at most one user_profiles row and at most one
\* mom_profiles row, whatever the interleaving of save_profile,
\* save_mom_personality and upload_voice.
C7_AtMostOneRowPerUser ==
    \A u \in 1..Len(users) :
        /\ Cardinality(RowsOf(profiles, u)) <= 1
        /\ Cardinality(RowsOf(moms, u)) <= 1

\* C8: for a chat message classified as mistake, the tone is "caring-anger"
\* when the user has exactly 3 prior generic_mistake events and "gentle" when
\* the user has 0, 1 or 2; either way exactly one mistake event is appended to
\* the user's event log.
C8_Step ==
    (last'.op = "chat" /\ last'.status = 200 /\ last'.intent = "mistake") =>
        LET prior == MistakesOf(events, last'.user_id)
        IN  /\ prior = 3 => last'.tone = "caring-anger"
            /\ prior \in 0..2 => last'.tone = "gentle"
            /\ Len(events') = Len(events) + 1
            /\ SubSeq(events', 1, Len(events)) = events
            /\ events'[Len(events')].user_id = last'.user_id
            /\ events'[Len(events')].event_type = "mistake"
            /\ events'[Len(events')].event_key = "generic_mistake"

C8_MistakeEscalation == [][C8_Step]_vars

C8_Witness ==
    /\ last.op = "chat"
    /\ last.status = 200
    /\ last.intent = "mistake"
    /\ last.tone = "caring-anger"
    /\ MistakesOf(events, last.user_id) = 4

\* C9: for a chat message classified as improvement from a user with at least
\* 2 prior mistake events, the tone is "proud", exactly one positive_change
\* event (key meal_improvement, severity low) is appended and nothing else;
\* and no step mutates or deletes an event already in the log.
C9_Step ==
    /\ Len(events') >= Len(events)
    /\ SubSeq(events', 1, Len(events)) = events
    /\ (last'.op = "chat" /\ last'.status = 200 /\ last'.intent = "improvement"
            /\ MistakesOf(events, last'.user_id) >= 2)
          => /\ last'.tone = "proud"
             /\ Len(events') = Len(events) + 1
             /\ events'[Len(events')].user_id = last'.user_id
             /\ events'[Len(events')].event_type = "positive_change"
             /\ events'[Len(events')].event_key = "meal_improvement"
             /\ events'[Len(events')].severity = "low"

C9_ImprovementAfterMistakes == [][C9_Step]_vars

C9_Witness ==
    /\ last.op = "chat"
    /\ last.status = 200
    /\ last.intent = "improvement"
    /\ last.tone = "proud"
    /\ events[Len(events)].event_type = "positive_change"
    /\ MistakesOf(events, last.user_id) >= 2

\* C10: two upload_voice requests of the same user that are in flight together
\* work on one and the same persona row, so that the voice rows of both batches
\* reference one persona.
C10_ConcurrentUploadsOnePersona ==
    \A s, t \in Slots :
        (reqs[s].op = "upload_voice" /\ reqs[t].op = "upload_voice"
            /\ reqs[s].user_id = reqs[t].user_id)
          => reqs[s].mom_id = reqs[t].mom_id

\* C11: an upload_voice request that ends in an error (400 for a file of the
\* wrong type or too large, or a failure after validation) has persisted
\* nothing: it has created no persona row and committed no voice row.
C11_FailedUploadPersistsNothing ==
    (last.op = "upload_voice" /\ last.step \in {"file", "commit"}
        /\ last.status \in {400, 500})
      => /\ ~last.created
         /\ \A i \in 1..Len(voices), k \in 1..Len(last.saved) :
               voices[i].stored_name # last.saved[k]

====
